---- MODULE Spec2Model ----
(***************************************************************************)
(* Circular Curve Calculator (src/curve_webapp.py).                        *)
(*                                                                         *)
(* The script is one synchronous pipeline over four inputs (I_deg, Da_deg, *)
(* PI_station_str, stake_step) and three utility functions.  Three state   *)
(* machines are given over one set of variables:                           *)
(*   Spec         the pipeline of lines 42-145, one action per section;    *)
(*   SpecStation  station_to_ft followed by ft_to_station on a text;       *)
(*   SpecDms      deg_to_dms_nearest_sec on an angle.                      *)
(*                                                                         *)
(* Numbers.  Python floats are modelled in fixed point:                    *)
(*   lengths and stations   hundredths of a foot                           *)
(*   I_deg                  half degrees   (the widget's step is 0.5)      *)
(*   Da_deg                 tenths of a degree (the widget's step is 0.1)  *)
(*   deflection angles      1/DegDen of a degree, DegDen = 200000, so that *)
(*                          Da * arc / 200 is the exact product            *)
(*                          Da_deg * arc with no division                  *)
(*   sines, cosines, tans   millionths                                     *)
(* In this range a double carries far more precision than the model's      *)
(* units, so double rounding is not modelled, with one exception: at       *)
(* I = 180 the code evaluates math.tan(math.radians(90.0)), which is the   *)
(* finite double 1.633e16, so T = R * tan is about 1e18..1e19 ft and every *)
(* station lies where consecutive doubles are Ulp ft apart (128..2048 ft). *)
(* There each float operation rounds to that grid (Fl), and stations are   *)
(* held as offsets from -T, which is itself a point of the grid; the ints  *)
(* the loop adds up stay exact, as Python's ints do.                       *)
(***************************************************************************)
EXTENDS Integers, Sequences, FiniteSets, TLC

VARIABLES
  \* ---- pipeline (Spec) ----
  I_deg,            \* input: intersection angle, half degrees
  Da_deg,           \* input: degree of curve, tenths of a degree
  PI_station_str,   \* input: station text, a sequence of characters
  stake_step,       \* input: stake interval, feet
  pc,               \* position in the script
  outcome,          \* "none", "warning", "rendered" or the exception raised
  PI_ft, R, T, L, PC_station, PT_station,
  first_full_50, s, stations,
  deflection_deg, tape_ct, edm_ct,
  points, table,
  x_points, y_points, m2, x_PI, y_PI,
  \* ---- station text machine (SpecStation) ----
  sta, parsed, shown, phase,
  \* ---- DMS machine (SpecDms) ----
  deg, dms, dphase

pipeVars == <<I_deg, Da_deg, PI_station_str, stake_step, pc, outcome,
              PI_ft, R, T, L, PC_station, PT_station,
              first_full_50, s, stations,
              deflection_deg, tape_ct, edm_ct,
              points, table, x_points, y_points, m2, x_PI, y_PI>>
staVars == <<sta, parsed, shown, phase>>
dmsVars == <<deg, dms, dphase>>
vars == <<pipeVars, staVars, dmsVars>>

(***************************************************************************)
(* Bounds of the model.                                                    *)
(***************************************************************************)
\* longest station text typed into the text machine
MaxLen == 7
\* largest angle given to the DMS machine, in units of 1/DegDen degree
MaxDeg == 200200

(***************************************************************************)
(* Characters and numerals.                                                *)
(***************************************************************************)
Digits == <<"0", "1", "2", "3", "4", "5", "6", "7", "8", "9">>
DigitSet == {Digits[i] : i \in 1..10}
IsDigit(c) == c \in DigitSet
DigitVal(c) == (CHOOSE i \in 1..10 : Digits[i] = c) - 1

\* characters a station text of the text machine is made of; "x" stands for
\* any character that is neither a digit, '+' nor '.'
Alphabet == {"0", "1", "+", ".", "x"}

Abs(n) == IF n < 0 THEN -n ELSE n

RECURSIVE Pow10(_)
Pow10(k) == IF k = 0 THEN 1 ELSE 10 * Pow10(k - 1)

\* str(n) of a non-negative int
RECURSIVE NatStr(_)
NatStr(n) == IF n < 10 THEN <<Digits[n + 1]>>
             ELSE NatStr(n \div 10) \o <<Digits[(n % 10) + 1]>>

\* format(n, "d")
IntStr(n) == IF n < 0 THEN <<"-">> \o NatStr(-n) ELSE NatStr(n)

\* format(n, "02d") for n >= 0
Fmt02d(n) == IF n < 10 THEN <<"0">> \o NatStr(n) ELSE NatStr(n)

\* the int a digit sequence denotes (0 for the empty sequence)
RECURSIVE DigitsVal(_)
DigitsVal(ds) == IF ds = <<>> THEN 0
                 ELSE 10 * DigitsVal(SubSeq(ds, 1, Len(ds) - 1)) + DigitVal(ds[Len(ds)])

\* Python's round(): n / d to the nearest int, a tie to the even one (d > 0)
RoundHalfEven(n, d) ==
  LET q == n \div d
      r == n % d
  IN  IF 2 * r < d THEN q
      ELSE IF 2 * r > d THEN q + 1
      ELSE IF q % 2 = 0 THEN q ELSE q + 1

(***************************************************************************)
(* station_to_ft, lines 22-24.  A float is the record [n, k]: n / 10^k.    *)
(***************************************************************************)
\* sta.replace('+', '')
Replace(str) == SelectSeq(str, LAMBDA c : c # "+")

Count(str, ch) == Cardinality({i \in 1..Len(str) : str[i] = ch})

\* float(s): an optional sign, digits with at most one '.', at least one digit
\* (exponents, whitespace, underscores, inf and nan need characters outside
\* the model's alphabet)
float(str) ==
  LET neg  == Len(str) > 0 /\ str[1] = "-"
      body == IF neg THEN Tail(str) ELSE str
      ok   == /\ \A i \in 1..Len(body) : IsDigit(body[i]) \/ body[i] = "."
              /\ Count(body, ".") <= 1
              /\ \E i \in 1..Len(body) : IsDigit(body[i])
      dot  == IF Count(body, ".") = 0 THEN Len(body) + 1
              ELSE CHOOSE i \in 1..Len(body) : body[i] = "."
      mag  == DigitsVal(SelectSeq(body, IsDigit))
  IN  IF ok THEN [err |-> "none", n |-> IF neg THEN -mag ELSE mag, k |-> Len(body) + 1 - dot - (IF dot <= Len(body) THEN 1 ELSE 0)]
      ELSE [err |-> "ValueError", n |-> 0, k |-> 0]

station_to_ft(str) == float(Replace(str))

(***************************************************************************)
(* ft_to_station, lines 26-29, of the float x = [n, k].                    *)
(***************************************************************************)
\* f"{r:05.2f}" of r = h hundredths after rounding, h >= 0
Fmt05_2f(h) ==
  LET body == NatStr(h \div 100) \o <<".">> \o Fmt02d(h % 100)
  IN  IF Len(body) < 5 THEN <<"0">> \o body ELSE body

\* f"{r:.2f}": the same without the zero padding to width 5
Fmt_2f(h) == NatStr(h \div 100) \o <<".">> \o Fmt02d(h % 100)

\* r to two decimals, in hundredths: r = rn / 10^k
Round2(rn, k) == IF k <= 2 THEN rn * Pow10(2 - k) ELSE RoundHalfEven(rn, Pow10(k - 2))

ft_to_station_nopad(x) ==
  LET i == x.n \div (100 * Pow10(x.k))
      r == x.n - i * 100 * Pow10(x.k)
  IN  IntStr(i) \o <<"+">> \o Fmt_2f(Round2(r, x.k))

ft_to_station(x) ==
  LET i == x.n \div (100 * Pow10(x.k))
      r == x.n - i * 100 * Pow10(x.k)
  IN  IntStr(i) \o <<"+">> \o Fmt05_2f(Round2(r, x.k))


(***************************************************************************)
(* deg_to_dms_nearest_sec, lines 31-39.  deg is in units of 1/DegDen       *)
(* degree, so deg * 3600 is dg * 3600 / DegDen = dg * 9 / 500.  The result *)
(* is the three fields and the rendered text, with "d", "m", "s" for the   *)
(* degree, prime and double prime signs.                                   *)
(***************************************************************************)
DegDen == 200000

\* format(n, "02d") for any int
IntFmt02d(n) == IF n < 0 THEN <<"-">> \o NatStr(-n) ELSE Fmt02d(n)

DmsOf(tot) ==
  LET d0 == tot \div 3600
      rem == tot % 3600
      m0 == rem \div 60
      s0 == rem % 60
      s1 == IF s0 = 60 THEN 0 ELSE s0
      m1 == IF s0 = 60 THEN m0 + 1 ELSE m0
      m2_ == IF m1 >= 60 THEN m1 - 60 ELSE m1
      d1 == IF m1 >= 60 THEN d0 + 1 ELSE d0
  IN  [d |-> d1, m |-> m2_, s |-> s1,
       text |-> IntFmt02d(d1) \o <<"d">> \o IntFmt02d(m2_) \o <<"m">> \o IntFmt02d(s1) \o <<"s">>]

\* the seconds truncated instead of rounded: int(deg * 3600)
deg_to_dms_truncating(dg) == DmsOf((dg * 9) \div 500)

deg_to_dms_nearest_sec(dg) == DmsOf(RoundHalfEven(dg * 9, 500))

(***************************************************************************)
(* Arithmetic of the pipeline.                                             *)
(***************************************************************************)
\* math.pi as the fraction PiNum / PiDen
PiNum == 355
PiDen == 113

Sign(n) == IF n < 0 THEN -1 ELSE 1

\* a * b / 10^6 for a, b >= 0 in 32 bits (a * b below 2 * 10^15)
MulE6pos(a, b) ==
  (a \div 1000) * (b \div 1000)
    + ((a % 1000) * (b \div 1000)) \div 1000
    + ((a \div 1000) * (b % 1000)) \div 1000

MulE6(a, b) == Sign(a) * Sign(b) * MulE6pos(Abs(a), Abs(b))

\* a * 10^6 / b for a >= 0 and 0 < b < 2 * 10^6, by long division
DivE6pos(a, b) ==
  LET q0 == a \div b
      r0 == a % b
      q1 == (r0 * 1000) \div b
      r1 == (r0 * 1000) % b
      q2 == (r1 * 1000) \div b
  IN  q0 * 1000000 + q1 * 1000 + q2

DivE6(a, b) == Sign(a) * Sign(b) * DivE6pos(Abs(a), Abs(b))

\* math.ceil(a / b) for b > 0
CeilDiv(a, b) == -((-a) \div b)

\* math.radians of an angle in 1/DegDen degree, in millionths of a radian:
\* x * pi / (180 * DegDen) * 10^6 = x * PiNum / (PiDen * 36)
radians(x) ==
  LET den == PiDen * 36
      a   == Abs(x)
  IN  Sign(x) * ((a \div den) * PiNum + ((a % den) * PiNum) \div den)

\* pi and pi / 2 in millionths of a radian
PiE6 == (PiNum * 1000000) \div PiDen
HalfPiE6 == (PiNum * 500000) \div PiDen

\* sin on [0, pi/2], millionths in and out: the series to x^11 in Horner form
SinQ(x) ==
  LET x2 == MulE6pos(x, x)
      t5 == 1000000 - x2 \div 110
      t4 == 1000000 - MulE6pos(x2, t5) \div 72
      t3 == 1000000 - MulE6pos(x2, t4) \div 42
      t2 == 1000000 - MulE6pos(x2, t3) \div 20
      t1 == 1000000 - MulE6pos(x2, t2) \div 6
  IN  MulE6pos(x, t1)

\* math.sin of x millionths of a radian, in millionths
math_sin(x) ==
  LET y == x % (2 * PiE6)
  IN  IF y <= HalfPiE6 THEN SinQ(y)
      ELSE IF y <= PiE6 THEN SinQ(PiE6 - y)
      ELSE IF y <= PiE6 + HalfPiE6 THEN -SinQ(y - PiE6)
      ELSE -SinQ(2 * PiE6 - y)

math_cos(x) == math_sin(x + HalfPiE6)

\* math.tan(math.radians(90.0)) is the finite double 1.633123935319537e16;
\* the model saturates it
TanRightAngle == 2000000000

\* math.tan(math.radians(q / 4)) in millionths, at the angles the inputs of
\* the model produce (I/2 and 180 - I for I in ISet)
TanTable ==
  [q \in {0, 1, 2, 80, 240, 359, 360, 560, 718, 720} |->
     CASE q = 0   -> 0
       [] q = 1   -> 4363
       [] q = 2   -> 8727
       [] q = 80  -> 363970
       [] q = 240 -> 1732051
       [] q = 359 -> 229181664
       [] q = 360 -> TanRightAngle
       [] q = 560 -> -839100
       [] q = 718 -> -8727
       [] q = 720 -> -1]

math_tan(q) == TanTable[q]


(***************************************************************************)
(* Inputs of the pipeline, lines 13-19.                                    *)
(***************************************************************************)
\* I_deg in half degrees: 0, 0.5, 40, 120, 179.5 and 180 degrees
ISet == {0, 1, 80, 240, 359, 360}
\* Da_deg in tenths of a degree: 0, 8, 20, 50 and 100 degrees; each divides
\* 50000, so that L = 100 * I / Da is a whole number of hundredths
DaSet == {0, 80, 200, 500, 1000}
\* PI_station_str: "10+00.00", "0+00.00", "9+60.65" and the malformed "1x"
PISet == { <<"1", "0", "+", "0", "0", ".", "0", "0">>,
           <<"0", "+", "0", "0", ".", "0", "0">>,
           <<"9", "+", "6", "0", ".", "6", "5">>,
           <<"1", "x">> }
\* st.slider(25, 100, 50, step=25)
StepSet == {25, 50, 75, 100}

(***************************************************************************)
(* Line 42: the guard of the pipeline.                                     *)
(***************************************************************************)
ValidEither == Da_deg > 0 \/ I_deg > 0

Valid == Da_deg > 0 /\ I_deg > 0

(***************************************************************************)
(* The double grid at I = 180.                                             *)
(***************************************************************************)
\* T = R * tan(radians(I/2)) is out of the exact range of doubles
Far == math_tan(I_deg) = TanRightAngle

RECURSIVE Pow2Floor(_)
Pow2Floor(n) == IF n < 2 THEN 1 ELSE 2 * Pow2Floor(n \div 2)

\* 10 * 18000 * tan(radians(90)) / (pi * 2^52): T / 2^52 is UlpNum / Da_deg
UlpNum == 207769

\* the spacing, in feet, of the doubles of T's magnitude: 2^(floor(log2 T) - 52)
Ulp == Pow2Floor(UlpNum \div Da_deg)

\* the spacing of the doubles around the stations, in hundredths of a foot
Grid == IF Far THEN Ulp * 100 ELSE 1

\* T = R * math.tan(math.radians(90.0)) is a whole number of feet, a multiple
\* of Ulp, too large for the model's integers:
\*   Da = 8    T = 11696388614450690048     Da = 20   T = 4678555445780275200
\*   Da = 50   T = 1871422178312110080      Da = 100  T = 935711089156055040
\* The arithmetic below needs only T mod 38400 (mod) and whether T / Ulp is
\* odd (odd).
TBits ==
  [Da \in {80, 200, 500, 1000} |->
     CASE Da = 80   -> [mod |-> 2048,  odd |-> 1]
       [] Da = 200  -> [mod |-> 0,     odd |-> 0]
       [] Da = 500  -> [mod |-> 7680,  odd |-> 0]
       [] Da = 1000 -> [mod |-> 23040, odd |-> 0]]

TMod == IF Far THEN TBits[Da_deg].mod ELSE 0
TOdd == IF Far THEN TBits[Da_deg].odd ELSE 0

\* a real number x rounded to the nearest double, a tie to the double with
\* the even significand.  When Far, x and the result are offsets from -T and
\* the doubles are the multiples of Grid; otherwise every x of the model is a
\* double (Grid = 1).
Fl(x) ==
  LET q == x \div Grid
      r == x % Grid
  IN  IF 2 * r < Grid THEN q * Grid
      ELSE IF 2 * r > Grid THEN (q + 1) * Grid
      ELSE IF (q + TOdd) % 2 = 0 THEN q * Grid ELSE (q + 1) * Grid

\* the spacing of the doubles around the quotient (PC + step) / step when Far
QuotUlp(step) == Pow2Floor((UlpNum \div Da_deg) \div step)

\* math.ceil((PC_station + stake_step) / stake_step) * stake_step when Far, as
\* an offset from -T in hundredths.  With X = T - xo the magnitude of
\* PC + step (xo its offset in feet), the quotient X / step is rounded to the
\* nearest multiple of G = QuotUlp(step), math.ceil leaves that whole number
\* alone, and the product with the int step is exact: the result lies d below
\* or G * step - d above PC + step, where d = X mod (G * step).
FarFirstFull(PC, step) ==
  LET xo  == Fl(PC + step * 100) \div 100
      G   == QuotUlp(step)
      mm  == (TMod - xo) % (2 * G * step)
      d   == mm % (G * step)
      par == (mm \div (G * step)) % 2
      c   == IF 2 * d < G * step THEN 0
             ELSE IF 2 * d > G * step THEN 1
             ELSE par
  IN  (xo + d - c * G * step) * 100

(***************************************************************************)
(* Lines 43-48.                                                            *)
(***************************************************************************)
\* a parsed float [n, k] in hundredths of a foot
Hundredths(x) == Round2(x.n, x.k)

\* R = 18000.0 / (math.pi * Da_deg), in hundredths of a foot
RadiusOf(Da) == (18000000 * PiDen) \div (PiNum * Da)

\* L = 100.0 * I_deg / Da_deg, in hundredths of a foot
ArcLength(I, Da) == (50000 * I) \div Da

(***************************************************************************)
(* Lines 51-57.                                                            *)
(***************************************************************************)
\* first_full_50 = math.ceil((PC_station + stake_step) / stake_step) * stake_step
FirstFull(PC, step) ==
  IF Far THEN FarFirstFull(PC, step)
  ELSE CeilDiv(PC + step * 100, step * 100) * (step * 100)

\* s < PT_station - 1e-6: both sides are whole hundredths (whole feet against
\* a point of the double grid when Far), where 1e-6 ft decides nothing
LoopGuard(sv, PT) == sv < PT

(***************************************************************************)
(* Lines 60-73.                                                            *)
(***************************************************************************)
\* the arc measured from station 0 instead of from PC
DeflectionFromOrigin(stn, PC, Da) == Da * Fl(stn)

\* delta = Da_deg * (stn - PC_station) / 200.0, in 1/DegDen degree; an int
\* station is converted to a double before the subtraction
Deflection(stn, PC, Da) == Da * (Fl(stn) - PC)

\* 2 * R * math.sin(math.radians(d)), rounded to 2 decimals
Chord(Rv, d) == MulE6(2 * Rv, math_sin(radians(d)))

RECURSIVE SumSeq(_)
SumSeq(q) == IF q = <<>> THEN 0 ELSE q[1] + SumSeq(Tail(q))

(***************************************************************************)
(* Lines 75-82.                                                            *)
(***************************************************************************)
PointLabels(n) ==
  [i \in 1..n |-> IF i = 1 THEN <<"P.C.">> ELSE IF i = n THEN <<"P.T.">> ELSE NatStr(i - 1)]

\* the station column; at I = 180 the stations are twenty-digit numbers that
\* the offsets of the model do not carry
StationText(stn) == IF Far THEN <<"-T">> \o IntStr(stn) ELSE ft_to_station([n |-> stn, k |-> 2])

(***************************************************************************)
(* The pipeline.                                                           *)
(***************************************************************************)
\* 0 and <<>> stand for a name the script has not bound yet
InitPipe ==
  /\ I_deg \in ISet
  /\ Da_deg \in DaSet
  /\ PI_station_str \in PISet
  /\ stake_step \in StepSet
  /\ pc = "start"
  /\ outcome = "none"
  /\ PI_ft = 0 /\ R = 0 /\ T = 0 /\ L = 0 /\ PC_station = 0 /\ PT_station = 0
  /\ first_full_50 = 0 /\ s = 0 /\ stations = <<>>
  /\ deflection_deg = <<>> /\ tape_ct = <<>> /\ edm_ct = <<>>
  /\ points = <<>> /\ table = <<>>
  /\ x_points = <<>> /\ y_points = <<>> /\ m2 = 0 /\ x_PI = 0 /\ y_PI = 0

IdlePipe ==
  /\ I_deg = 0 /\ Da_deg = 0 /\ PI_station_str = <<>> /\ stake_step = 25
  /\ pc = "idle" /\ outcome = "none"
  /\ PI_ft = 0 /\ R = 0 /\ T = 0 /\ L = 0 /\ PC_station = 0 /\ PT_station = 0
  /\ first_full_50 = 0 /\ s = 0 /\ stations = <<>>
  /\ deflection_deg = <<>> /\ tape_ct = <<>> /\ edm_ct = <<>>
  /\ points = <<>> /\ table = <<>>
  /\ x_points = <<>> /\ y_points = <<>> /\ m2 = 0 /\ x_PI = 0 /\ y_PI = 0

IdleStation == sta = <<>> /\ parsed = [err |-> "none", n |-> 0, k |-> 0] /\ shown = <<>> /\ phase = "idle"

IdleDms == deg = 0 /\ dms = [d |-> 0, m |-> 0, s |-> 0, text |-> <<>>] /\ dphase = "idle"

inputVars == <<I_deg, Da_deg, PI_station_str, stake_step>>
elemVars == <<PI_ft, R, T, L, PC_station, PT_station>>
stakeVars == <<first_full_50, s, stations>>
tableVars == <<deflection_deg, tape_ct, edm_ct, points, table>>
coordVars == <<x_points, y_points, m2, x_PI, y_PI>>

\* lines 144-145
Warn ==
  /\ pc = "start"
  /\ ~Valid
  /\ outcome' = "warning"
  /\ pc' = "done"
  /\ UNCHANGED <<inputVars, elemVars, stakeVars, tableVars, coordVars, staVars, dmsVars>>

\* lines 42-48
Elements ==
  /\ pc = "start"
  /\ Valid
  /\ LET p == station_to_ft(PI_station_str)
     IN  IF p.err # "none"
         THEN /\ outcome' = p.err
              /\ pc' = "done"
              /\ UNCHANGED elemVars
         ELSE IF Da_deg = 0
         THEN /\ outcome' = "ZeroDivisionError"
              /\ pc' = "done"
              /\ PI_ft' = Hundredths(p)
              /\ UNCHANGED <<R, T, L, PC_station, PT_station>>
         ELSE LET Rv  == RadiusOf(Da_deg)
                  Tv  == IF Far THEN TanRightAngle ELSE MulE6(Rv, math_tan(I_deg))
                  Lv  == ArcLength(I_deg, Da_deg)
                  PCv == IF Far THEN Fl(Hundredths(p)) ELSE Hundredths(p) - Tv
              IN  /\ PI_ft' = Hundredths(p)
                  /\ R' = Rv
                  /\ T' = Tv
                  /\ L' = Lv
                  /\ PC_station' = PCv
                  /\ PT_station' = Fl(PCv + Lv)
                  /\ pc' = "stakes"
                  /\ UNCHANGED outcome
  /\ UNCHANGED <<inputVars, stakeVars, tableVars, coordVars, staVars, dmsVars>>

\* lines 51-53
StakeInit ==
  /\ pc = "stakes"
  /\ first_full_50' = FirstFull(PC_station, stake_step)
  /\ s' = FirstFull(PC_station, stake_step)
  /\ stations' = <<PC_station>>
  /\ pc' = "loop"
  /\ UNCHANGED <<inputVars, outcome, elemVars, tableVars, coordVars, staVars, dmsVars>>

\* lines 54-56: one iteration of the while loop
StakeLoop ==
  /\ pc = "loop"
  /\ LoopGuard(s, PT_station)
  /\ stations' = Append(stations, s)
  /\ s' = s + stake_step * 100
  /\ UNCHANGED <<inputVars, pc, outcome, elemVars, first_full_50, tableVars, coordVars, staVars, dmsVars>>

\* lines 54, 57: the loop is left and PT is appended
StakeExit ==
  /\ pc = "loop"
  /\ ~LoopGuard(s, PT_station)
  /\ stations' = Append(stations, PT_station)
  /\ pc' = "deflect"
  /\ UNCHANGED <<inputVars, outcome, elemVars, first_full_50, s, tableVars, coordVars, staVars, dmsVars>>

\* lines 60-64
Deflect ==
  /\ pc = "deflect"
  /\ deflection_deg' = [i \in 1..Len(stations) |-> Deflection(stations[i], PC_station, Da_deg)]
  /\ pc' = "chords"
  /\ UNCHANGED <<inputVars, outcome, elemVars, stakeVars, tape_ct, edm_ct, points, table, coordVars, staVars, dmsVars>>

\* lines 66-73
Chords ==
  /\ pc = "chords"
  /\ tape_ct' = [i \in 1..Len(stations) |->
                   IF i = 1 THEN 0 ELSE Chord(R, deflection_deg[i] - deflection_deg[i - 1])]
  /\ edm_ct' = [i \in 1..Len(stations) |->
                   IF i = 1 THEN 0 ELSE Chord(R, deflection_deg[i])]
  /\ pc' = "table"
  /\ UNCHANGED <<inputVars, outcome, elemVars, stakeVars, deflection_deg, points, table, coordVars, staVars, dmsVars>>

\* lines 75-82
Table ==
  /\ pc = "table"
  /\ points' = PointLabels(Len(stations))
  /\ table' = [i \in 1..Len(stations) |->
                 [Point   |-> PointLabels(Len(stations))[i],
                  Station |-> StationText(stations[i]),
                  Defl    |-> deg_to_dms_nearest_sec(deflection_deg[i]).text,
                  Tape    |-> tape_ct[i],
                  EDM     |-> edm_ct[i]]]
  /\ pc' = "coords"
  /\ UNCHANGED <<inputVars, outcome, elemVars, stakeVars, deflection_deg, tape_ct, edm_ct, coordVars, staVars, dmsVars>>

\* lines 85-92
Coords ==
  /\ pc = "coords"
  /\ x_points' = [i \in 1..Len(stations) |-> MulE6(R, math_sin(radians(2 * deflection_deg[i])))]
  /\ y_points' = [i \in 1..Len(stations) |->
                    -MulE6(R, 1000000 - math_cos(radians(2 * deflection_deg[i])))]
  /\ pc' = "pi"
  /\ UNCHANGED <<inputVars, outcome, elemVars, stakeVars, tableVars, m2, x_PI, y_PI, staVars, dmsVars>>

\* lines 95-100: PT_y / m2 raises ZeroDivisionError when m2 is 0.0
PICoord ==
  /\ pc = "pi"
  /\ LET PT_x == x_points[Len(x_points)]
         PT_y == y_points[Len(y_points)]
         m2v  == math_tan(720 - 2 * I_deg)
     IN  /\ m2' = m2v
         /\ IF m2v = 0
            THEN /\ outcome' = "ZeroDivisionError"
                 /\ pc' = "done"
                 /\ UNCHANGED <<x_PI, y_PI>>
            ELSE /\ x_PI' = PT_x - DivE6(PT_y, m2v)
                 /\ y_PI' = 0
                 /\ pc' = "output"
                 /\ UNCHANGED outcome
  /\ UNCHANGED <<inputVars, elemVars, stakeVars, tableVars, x_points, y_points, staVars, dmsVars>>

\* lines 103-142
Output ==
  /\ pc = "output"
  /\ outcome' = "rendered"
  /\ pc' = "done"
  /\ UNCHANGED <<inputVars, elemVars, stakeVars, tableVars, coordVars, staVars, dmsVars>>

Init == InitPipe /\ IdleStation /\ IdleDms

Next ==
  \/ Warn
  \/ Elements
  \/ StakeInit
  \/ StakeLoop
  \/ StakeExit
  \/ Deflect
  \/ Chords
  \/ Table
  \/ Coords
  \/ PICoord
  \/ Output

Spec == Init /\ [][Next]_vars

(***************************************************************************)
(* The station text machine: a text is parsed, and the distance formatted. *)
(***************************************************************************)
Texts == UNION {[1..n -> Alphabet] : n \in 0..MaxLen}

InitStation ==
  /\ sta \in Texts
  /\ parsed = [err |-> "none", n |-> 0, k |-> 0]
  /\ shown = <<>>
  /\ phase = "typed"
  /\ IdlePipe /\ IdleDms

Parse ==
  /\ phase = "typed"
  /\ parsed' = station_to_ft(sta)
  /\ phase' = "parsed"
  /\ UNCHANGED <<sta, shown, pipeVars, dmsVars>>

Format ==
  /\ phase = "parsed"
  /\ parsed.err = "none"
  /\ shown' = ft_to_station(parsed)
  /\ phase' = "shown"
  /\ UNCHANGED <<sta, parsed, pipeVars, dmsVars>>

NextStation == Parse \/ Format

SpecStation == InitStation /\ [][NextStation]_vars

(***************************************************************************)
(* The DMS machine: an angle is rendered.                                  *)
(***************************************************************************)
InitDms ==
  /\ deg \in 0..MaxDeg
  /\ dms = [d |-> 0, m |-> 0, s |-> 0, text |-> <<>>]
  /\ dphase = "given"
  /\ IdlePipe /\ IdleStation

Render ==
  /\ dphase = "given"
  /\ dms' = deg_to_dms_nearest_sec(deg)
  /\ dphase' = "rendered"
  /\ UNCHANGED <<deg, pipeVars, staVars>>

NextDms == Render

SpecDms == InitDms /\ [][NextDms]_vars


(***************************************************************************)
(* Properties.                                                             *)
(***************************************************************************)
IsDigits(str) == \A i \in 1..Len(str) : IsDigit(str[i])

\* the shape <integer>+<decimal> with exactly two fractional digits
WellFormed2(str) ==
  /\ Count(str, "+") = 1
  /\ Count(str, ".") = 1
  /\ LET plus == CHOOSE i \in 1..Len(str) : str[i] = "+"
         dot  == CHOOSE i \in 1..Len(str) : str[i] = "."
     IN  /\ 1 < plus /\ plus + 1 < dot /\ dot + 2 = Len(str)
         /\ IsDigits(SubSeq(str, 1, plus - 1))
         /\ IsDigits(SubSeq(str, plus + 1, dot - 1))
         /\ IsDigits(SubSeq(str, dot + 1, Len(str)))

\* the shape <integer>+<decimal>, the decimal with or without a fraction
WellFormed(str) ==
  /\ Count(str, "+") = 1
  /\ Count(str, ".") <= 1
  /\ LET plus == CHOOSE i \in 1..Len(str) : str[i] = "+"
         dot  == IF Count(str, ".") = 0 THEN Len(str) + 1
                 ELSE CHOOSE i \in 1..Len(str) : str[i] = "."
     IN  /\ 1 < plus /\ plus + 1 < dot
         /\ Count(str, ".") = 1 => dot < Len(str)
         /\ IsDigits(SubSeq(str, 1, plus - 1))
         /\ IsDigits(SubSeq(str, plus + 1, dot - 1))
         /\ IsDigits(SubSeq(str, dot + 1, Len(str)))

\* <group>+<dd.dd>: the group without a superfluous leading zero, the offset
\* with exactly two integer and two fractional digits
Canonical(str) ==
  /\ WellFormed2(str)
  /\ LET plus == CHOOSE i \in 1..Len(str) : str[i] = "+"
     IN  /\ Len(str) = plus + 5
         /\ plus > 2 => str[1] # "0"

\* the first stake is a multiple of the interval, above PC, and no multiple
\* lies between PC and it
IsNextMultiple(first, PC, step) ==
  /\ first % (step * 100) = 0
  /\ first > PC
  /\ first - step * 100 <= PC

Staked == pc \in {"loop", "deflect", "chords", "table", "coords", "pi", "output"}

ListBuilt == pc \in {"deflect", "chords", "table", "coords", "pi", "output"} \/ (pc = "done" /\ stations # <<>>)

\* C1: for every PC and every interval, first_full_50 is the smallest multiple
\* of the stake interval strictly greater than PC.  (Stated where stations are
\* absolute, I < 180.)
C1_FirstStakeIsNextMultiple ==
  (Staked /\ ~Far) => IsNextMultiple(first_full_50, PC_station, stake_step)

\* C2: for every valid input the station list starts with PC, ends with PT
\* and is strictly increasing.
C2_StationsStrictlyIncreasing ==
  ListBuilt =>
    /\ Len(stations) >= 2
    /\ stations[1] = PC_station
    /\ stations[Len(stations)] = PT_station
    /\ \A i \in 1..(Len(stations) - 1) : stations[i] < stations[i + 1]

\* C3, as claimed: for every station text of the shape <integer>+<decimal>
\* with exactly two fractional digits, formatting the parsed distance gives
\* the text back.
C3_RoundTrip ==
  (phase = "shown" /\ WellFormed2(sta)) => shown = sta

\* C3, amended: every text <group>+<dd.dd>, its group written without a
\* superfluous leading zero, is parsed, and formatting the parsed distance
\* gives the text back.
C3_RoundTripCanonical ==
  /\ (phase \in {"parsed", "shown"} /\ Canonical(sta)) => parsed.err = "none"
  /\ (phase = "shown" /\ Canonical(sta)) => shown = sta

C3_Witness ==
  /\ phase = "shown"
  /\ Canonical(sta)
  /\ sta = <<"1", "+", "0", "1", ".", "1", "0">>
  /\ shown = sta

NothingComputed ==
  /\ PI_ft = 0 /\ R = 0 /\ T = 0 /\ L = 0 /\ PC_station = 0 /\ PT_station = 0
  /\ first_full_50 = 0 /\ s = 0 /\ stations = <<>>
  /\ deflection_deg = <<>> /\ tape_ct = <<>> /\ edm_ct = <<>>
  /\ points = <<>> /\ table = <<>>
  /\ x_points = <<>> /\ y_points = <<>> /\ m2 = 0 /\ x_PI = 0 /\ y_PI = 0

\* C4: when I <= 0 or Da <= 0 nothing is computed, the station text is not
\* parsed, no exception is raised and the run ends in the warning.
C4_InvalidInputOnlyWarns ==
  (I_deg <= 0 \/ Da_deg <= 0) =>
    /\ NothingComputed
    /\ pc \in {"start", "done"}
    /\ pc = "start" => outcome = "none"
    /\ pc = "done" => outcome = "warning"

C4_Witness ==
  /\ pc = "done"
  /\ outcome = "warning"
  /\ I_deg > 0
  /\ Da_deg = 0
  /\ station_to_ft(PI_station_str).err = "ValueError"

\* C5: for I = 180 with Da > 0 (and a station text that parses) the run
\* ends in DegenerateGeometryError.
C5_DegenerateGeometryError ==
  (pc = "done" /\ I_deg = 360 /\ Da_deg > 0 /\ station_to_ft(PI_station_str).err = "none")
    => outcome = "DegenerateGeometryError"

\* C6: station_to_ft fails for every text that is not of the shape
\* <integer>+<decimal>, and returns a distance only for the texts of that
\* shape.  (Any failure is accepted here, whatever the exception is called.)
C6_FormatError ==
  phase \in {"parsed", "shown"} =>
    IF WellFormed(sta) THEN parsed.err = "none" ELSE parsed.err # "none"

\* C7: for every valid input the deflections start at 0 for PC, never
\* decrease along the list, and end at I/2 (I_deg * DegDen / 4 in the units
\* of the model).
C7_Deflections ==
  deflection_deg # <<>> =>
    /\ deflection_deg[1] = 0
    /\ \A i \in 1..(Len(deflection_deg) - 1) : deflection_deg[i] <= deflection_deg[i + 1]
    /\ 4 * deflection_deg[Len(deflection_deg)] = I_deg * DegDen

C9_NearestSecond ==
  dphase = "rendered" =>
    /\ dms.d >= 0
    /\ dms.m \in 0..59
    /\ dms.s \in 0..59
    /\ Abs((3600 * dms.d + 60 * dms.m + dms.s) * 500 - 9 * deg) <= 250

\* 59' 59.5" or more: the seconds round to 60 and carry through the minutes
\* into the degrees
C9_Witness ==
  /\ dphase = "rendered"
  /\ deg < DegDen
  /\ dms.d = 1 /\ dms.m = 0 /\ dms.s = 0

\* C10: for every valid input the loop has ended with n intermediate stakes,
\* n * interval < L, consecutive intermediate stakes one interval apart and
\* the last one before PT.
C10_StakeCount ==
  ListBuilt =>
    LET n == Len(stations) - 2
    IN  /\ n >= 0
        /\ n * stake_step * 100 < L
        /\ \A i \in 2..n : stations[i + 1] - stations[i] = stake_step * 100
        /\ n >= 1 => stations[n + 1] < PT_station

====
